---- MODULE Spec2Model ----
(***************************************************************************)
(* Model of the query resolver of kpasscli-rs (src/src/search.rs).         *)
(*                                                                         *)
(* A string is a sequence of one-character strings.  A database is a      *)
(* rooted tree of nodes 0..n: node 0 is the root group, every other node   *)
(* is a group ("G") or an entry ("E") whose parent is a group with a       *)
(* smaller number.  The stored order of a group's child groups and of its  *)
(* entries is the order of the node numbers.  A node number plays the part *)
(* of the NodePtr of the source.  Nodes are numbered level by level, and   *)
(* the child groups of a group before its entries: every tree has exactly  *)
(* one such numbering, since the source keeps the two in separate lists.   *)
(***************************************************************************)
EXTENDS Integers, Sequences, FiniteSets, TLC

VARIABLES
    db,        \* Finder.db: the tree the finder borrows
    options,   \* Finder.options
    query,     \* the argument of the last call of find
    strategy,  \* the strategy that call was dispatched to
    outcome,   \* what that call returned
    origin,    \* the result whose path the caller fed back into find, if any
    verdict    \* the last call of the Matcher on its own: value, pattern, result

vars == <<db, options, query, strategy, outcome, origin, verdict>>

(* ------------------------------ bounds -------------------------------- *)

\* Number of nodes below the root.
MaxNodes == 3
\* Number of '/'-separated segments of a query handed to find.
MaxSegs == 3
\* Length of the strings handed to the Matcher on its own.
MaxStrLen == 2

Slash == "/"

\* Characters of titles and queries: a letter in both cases and the separator.
Chars == {"a", "A", Slash}

\* Titles of groups and entries: the missing title (read as the empty string),
\* one letter in either case, and a title that holds the separator.
Titles == {<<>>, <<"a">>, <<"A">>, <<Slash>>}

\* What a segment of a query can be (a segment never holds the separator).
Segments == {<<>>, <<"a">>, <<"A">>}

(* ------------------------------ strings ------------------------------- *)

\* char::to_lowercase on the model's characters.
LowerChar(c) == IF c = "A" THEN "a" ELSE c

\* str::to_lowercase
to_lowercase(s) == [i \in 1..Len(s) |-> LowerChar(s[i])]

\* str::starts_with(p)
RECURSIVE starts_with(_, _)
starts_with(s, p) ==
    IF p = <<>> THEN TRUE
    ELSE IF s = <<>> THEN FALSE
    ELSE Head(s) = Head(p) /\ starts_with(Tail(s), Tail(p))

\* str::contains(p): p starts at some position of s.
RECURSIVE contains(_, _)
contains(s, p) ==
    IF starts_with(s, p) THEN TRUE
    ELSE IF s = <<>> THEN FALSE
    ELSE contains(Tail(s), p)

\* str::trim_start_matches('/'): every leading separator is removed.
RECURSIVE trim_start_matches(_)
trim_start_matches(s) ==
    IF s # <<>> /\ Head(s) = Slash THEN trim_start_matches(Tail(s)) ELSE s

\* str::split('/').collect(): the pieces between separators; never empty.
RECURSIVE split(_)
split(s) ==
    IF s = <<>> THEN << <<>> >>
    ELSE IF Head(s) = Slash THEN << <<>> >> \o split(Tail(s))
    ELSE LET rest == split(Tail(s))
         IN  << <<Head(s)>> \o Head(rest) >> \o Tail(rest)

\* format!("{}/{}", a, b)
format_join(a, b) == a \o <<Slash>> \o b

(* ------------------------------ the tree ------------------------------ *)

Root == 0

\* Group::get_title().unwrap_or("") and Entry title .unwrap_or_default()
get_title(d, n) == d.title[n]

ChildSeq(d, g, k) ==
    SelectSeq([i \in 1..d.n |-> i], LAMBDA i : d.parent[i] = g /\ d.kind[i] = k)

\* Group::groups(): the child groups in stored order.
groups(d, g) == ChildSeq(d, g, "G")

\* Group::entries(): the entries in stored order.
entries(d, g) == ChildSeq(d, g, "E")

IsDatabase(d) ==
    /\ \A i \in 1..d.n :
        /\ d.parent[i] < i
        /\ (d.parent[i] = Root \/ d.kind[d.parent[i]] = "G")
    /\ \A i, j \in 1..d.n :
        i < j => /\ d.parent[i] <= d.parent[j]
                 /\ (d.parent[i] = d.parent[j] /\ d.kind[i] = "E" => d.kind[j] = "E")

DatabasesOf(n) ==
    { d \in [n : {n}, kind : [1..n -> {"G", "E"}], parent : [1..n -> 0..MaxNodes],
             title : [0..n -> Titles]] : IsDatabase(d) }

Databases == UNION { DatabasesOf(n) : n \in 0..MaxNodes }

AllOptions == [case_sensitive : BOOLEAN, exact_match : BOOLEAN]

(* ------------------------------ Matcher ------------------------------- *)

\* matches that lowercases the value alone when case does not matter.
matches_half_folded(o, value, pattern) ==
    IF o.case_sensitive
    THEN IF o.exact_match THEN value = pattern ELSE contains(value, pattern)
    ELSE LET value_lower == to_lowercase(value)
         IN  IF o.exact_match THEN value_lower = pattern
             ELSE contains(value_lower, pattern)

\* Finder::matches
matches(o, value, pattern) ==
    IF o.case_sensitive
    THEN IF o.exact_match THEN value = pattern ELSE contains(value, pattern)
    ELSE LET value_lower == to_lowercase(value)
             pattern_lower == to_lowercase(pattern)
         IN  IF o.exact_match THEN value_lower = pattern_lower
             ELSE contains(value_lower, pattern_lower)

(* ------------------------------ results ------------------------------- *)

\* struct SearchResult
SearchResult(path, node) == [path |-> path, node |-> node]

\* Ok(results) and Err(anyhow!(...)); an error is named after its message.
Ok(results) == [ok |-> TRUE, err |-> "", results |-> results]
Err(e) == [ok |-> FALSE, err |-> e, results |-> <<>>]

EmptyPath == "Empty path"
RootAsResult == "Cannot return root group as result"
GroupNotFound == "Group not found"
EntryNotFound == "Entry not found"
InvalidSubpath == "Invalid subpath query"

\* FirstTitled with a scan that does not stop at the first hit: the last node
\* of seq whose title is part.
LastTitled(d, seq, part) ==
    LET hit == SelectSeq(seq, LAMBDA x : get_title(d, x) = part)
    IN  IF hit = <<>> THEN -1 ELSE hit[Len(hit)]

\* The first node of seq whose title is part, or -1: the scans of lines 77-85
\* and 89-96 stop at the first title that equals the segment.
FirstTitled(d, seq, part) ==
    LET hit == SelectSeq(seq, LAMBDA x : get_title(d, x) = part)
    IN  IF hit = <<>> THEN -1 ELSE Head(hit)

(* --------------------------- absolute path ---------------------------- *)

RECURSIVE absolute_loop(_, _, _, _, _)

\* absolute_loop without the failure of line 98-100: a segment before the last
\* that no child group carries is passed over.
absolute_loop_lenient(d, path, parts, i, current_node_ptr) ==
    IF i >= Len(parts) THEN Err(EntryNotFound)
    ELSE
      LET part == parts[i + 1]
          is_last_part == (i = Len(parts) - 1)
          entry == FirstTitled(d, entries(d, current_node_ptr), part)
          child == FirstTitled(d, groups(d, current_node_ptr), part)
          found == (child # -1)
      IN  IF is_last_part /\ entry # -1
          THEN Ok(<< SearchResult(path, entry) >>)
          ELSE IF ~found /\ ~is_last_part
          THEN absolute_loop(d, path, parts, i + 1, current_node_ptr)
          ELSE IF ~found /\ is_last_part
          THEN Ok(<< SearchResult(path, current_node_ptr) >>)
          ELSE absolute_loop(d, path, parts, i + 1, child)

\* absolute_loop with the two scans in the other order: the child groups are
\* scanned before the entries, and a group that carries the last segment
\* wins over an entry that does.
absolute_loop_groups_first(d, path, parts, i, current_node_ptr) ==
    IF i >= Len(parts) THEN Err(EntryNotFound)
    ELSE
      LET part == parts[i + 1]
          is_last_part == (i = Len(parts) - 1)
          entry == FirstTitled(d, entries(d, current_node_ptr), part)
          child == FirstTitled(d, groups(d, current_node_ptr), part)
          found == (child # -1)
      IN  IF found THEN absolute_loop(d, path, parts, i + 1, child)
          ELSE IF ~is_last_part THEN Err(GroupNotFound)
          ELSE IF entry # -1 THEN Ok(<< SearchResult(path, entry) >>)
          ELSE Ok(<< SearchResult(path, current_node_ptr) >>)

\* The loop of find_by_absolute_path from index i (0-based) on.
absolute_loop(d, path, parts, i, current_node_ptr) ==
    IF i >= Len(parts) THEN Err(EntryNotFound)
    ELSE
      LET part == parts[i + 1]
          is_last_part == (i = Len(parts) - 1)
          entry == FirstTitled(d, entries(d, current_node_ptr), part)
          child == FirstTitled(d, groups(d, current_node_ptr), part)
          found == (child # -1)
      IN  IF is_last_part /\ entry # -1
          THEN Ok(<< SearchResult(path, entry) >>)
          ELSE IF ~found /\ ~is_last_part THEN Err(GroupNotFound)
          ELSE IF ~found /\ is_last_part
          THEN Ok(<< SearchResult(path, current_node_ptr) >>)
          ELSE absolute_loop(d, path, parts, i + 1, child)

\* find_by_absolute_path splitting the path as it is given, its leading
\* separator not trimmed.
find_by_absolute_path_untrimmed(d, path) ==
    LET parts == split(path)
        root_name == get_title(d, Root)
        start_index == IF parts[1] = root_name THEN 1 ELSE 0
    IN  IF parts = <<>> THEN Err(EmptyPath)
        ELSE IF start_index >= Len(parts) THEN Err(RootAsResult)
        ELSE absolute_loop(d, path, parts, start_index, Root)

\* Finder::find_by_absolute_path
find_by_absolute_path(d, path) ==
    LET parts == split(trim_start_matches(path))
        root_name == get_title(d, Root)
        start_index == IF parts[1] = root_name THEN 1 ELSE 0
    IN  IF parts = <<>> THEN Err(EmptyPath)
        ELSE IF start_index >= Len(parts) THEN Err(RootAsResult)
        ELSE absolute_loop(d, path, parts, start_index, Root)

(* ------------------------ subpath and bare name ----------------------- *)

\* The results pushed for the entries of a group, in stored order.
EntryHits(d, o, group, prefix, target_name) ==
    LET hit == SelectSeq(entries(d, group),
                         LAMBDA e : matches(o, get_title(d, e), target_name))
    IN  [k \in 1..Len(hit) |->
            SearchResult(prefix \o format_join(<<>>, get_title(d, hit[k])), hit[k])]

RECURSIVE search_group_recursive(_, _, _, _, _, _)
RECURSIVE search_each_child(_, _, _, _, _, _)

\* Finder::search_group_recursive: the results it pushes, in order.
search_group_recursive(d, o, group, current_path, search_path, target_name) ==
    LET group_name == get_title(d, group)
        group_path == IF group_name = <<>> THEN current_path
                      ELSE IF current_path = <<Slash>> THEN <<Slash>> \o group_name
                      ELSE format_join(current_path, group_name)
        at_target == IF Len(search_path) = 1
                     THEN EntryHits(d, o, group, group_path, target_name)
                     ELSE <<>>
        consumed == IF search_path # <<>> /\ matches(o, group_name, search_path[1])
                    THEN search_each_child(d, o, groups(d, group), group_path,
                                           Tail(search_path), target_name)
                    ELSE <<>>
        always == search_each_child(d, o, groups(d, group), group_path,
                                    search_path, target_name)
    IN  at_target \o consumed \o always

\* The loops over group.groups() of lines 181-187 and 192-196.
search_each_child(d, o, children, group_path, search_path, target_name) ==
    IF children = <<>> THEN <<>>
    ELSE search_group_recursive(d, o, Head(children), group_path, search_path,
                                target_name)
         \o search_each_child(d, o, Tail(children), group_path, search_path,
                              target_name)

\* Finder::find_by_subpath
find_by_subpath(d, o, q) ==
    LET parts == split(q)
    IN  IF Len(parts) < 2 THEN Err(InvalidSubpath)
        ELSE LET target_name == parts[Len(parts)]
                 sub_path == SubSeq(parts, 1, Len(parts) - 1)
                 results == search_group_recursive(d, o, Root, <<Slash>>, sub_path,
                                                   target_name)
             IN  Ok(SelectSeq(results, LAMBDA r : contains(r.path, q)))

RECURSIVE search_group_recursive_name(_, _, _, _, _)
RECURSIVE search_each_child_name(_, _, _, _, _)

\* search_group_recursive_name that stops at the group it is given and does
\* not descend into its child groups.
search_group_recursive_name_shallow(d, o, group, current_path, target_name) ==
    LET group_name == get_title(d, group)
        group_path == IF group_name = <<>> THEN current_path
                      ELSE IF current_path = <<>> THEN group_name
                      ELSE format_join(current_path, group_name)
    IN  EntryHits(d, o, group, <<Slash>> \o group_path, target_name)

\* Finder::search_group_recursive_name: the results it pushes, in order.
search_group_recursive_name(d, o, group, current_path, target_name) ==
    LET group_name == get_title(d, group)
        group_path == IF group_name = <<>> THEN current_path
                      ELSE IF current_path = <<>> THEN group_name
                      ELSE format_join(current_path, group_name)
    IN  EntryHits(d, o, group, <<Slash>> \o group_path, target_name)
        \o search_each_child_name(d, o, groups(d, group), group_path, target_name)

\* The loop over group.groups() of lines 231-235.
search_each_child_name(d, o, children, group_path, target_name) ==
    IF children = <<>> THEN <<>>
    ELSE search_group_recursive_name(d, o, Head(children), group_path, target_name)
         \o search_each_child_name(d, o, Tail(children), group_path, target_name)

\* Finder::find_by_name
find_by_name(d, o, q) ==
    Ok(search_group_recursive_name(d, o, Root, <<>>, q))

\* Finder::find
find(d, o, q) ==
    IF starts_with(q, <<Slash>>) THEN find_by_absolute_path(d, q)
    ELSE IF contains(q, <<Slash>>) THEN find_by_subpath(d, o, q)
    ELSE find_by_name(d, o, q)

(* --------------------------- the state machine ------------------------ *)

\* The segments joined by the separator.
RECURSIVE JoinSegs(_)
JoinSegs(segs) ==
    IF Len(segs) = 0 THEN <<>>
    ELSE IF Len(segs) = 1 THEN segs[1]
    ELSE format_join(segs[1], JoinSegs(Tail(segs)))

SegSeqs == UNION { [1..k -> Segments] : k \in 1..MaxSegs }

\* The queries handed to find: up to MaxSegs segments, with or without a
\* leading separator.
Queries ==
    { JoinSegs(s) : s \in SegSeqs } \cup { <<Slash>> \o JoinSegs(s) : s \in SegSeqs }

\* The strings handed to the Matcher on its own.
Strings == UNION { [1..k -> Chars] : k \in 0..MaxStrLen }

NoCall == [ok |-> FALSE, err |-> "not called", results |-> <<>>]
NoOrigin == [path |-> <<>>, node |-> -1, strategy |-> "none"]
NoVerdict == [value |-> <<>>, pattern |-> <<>>, result |-> FALSE, called |-> FALSE]
EmptyDatabase == [n |-> 0, kind |-> <<>>, parent |-> <<>>, title |-> (0 :> <<>>)]

\* The dispatch of Finder::find, by name.
StrategyOf(q) ==
    IF starts_with(q, <<Slash>>) THEN "absolute"
    ELSE IF contains(q, <<Slash>>) THEN "subpath"
    ELSE "name"

\* Finder::new(db, options), before any call of find.
Init ==
    /\ db \in Databases
    /\ options \in AllOptions
    /\ query = <<>>
    /\ strategy = "none"
    /\ outcome = NoCall
    /\ origin = NoOrigin
    /\ verdict = NoVerdict

\* The caller's call of find with a query of its own.
Find(q) ==
    /\ outcome = NoCall
    /\ query' = q
    /\ strategy' = StrategyOf(q)
    /\ outcome' = find(db, options, q)
    /\ origin' = NoOrigin
    /\ UNCHANGED <<db, options, verdict>>

\* The caller feeds the path of a result it got back into find.
FindAgain(k) ==
    /\ outcome.ok
    /\ origin' = [path |-> outcome.results[k].path, node |-> outcome.results[k].node,
                  strategy |-> strategy]
    /\ query' = outcome.results[k].path
    /\ strategy' = StrategyOf(outcome.results[k].path)
    /\ outcome' = find(db, options, outcome.results[k].path)
    /\ UNCHANGED <<db, options, verdict>>

Next ==
    \/ \E q \in Queries : Find(q)
    \/ \E k \in 1..Len(outcome.results) : FindAgain(k)

Spec == Init /\ [][Next]_vars

\* The Matcher on its own: a finder over an empty tree, and calls of matches.
InitMatcher ==
    /\ db = EmptyDatabase
    /\ options \in AllOptions
    /\ query = <<>>
    /\ strategy = "none"
    /\ outcome = NoCall
    /\ origin = NoOrigin
    /\ verdict = NoVerdict

Matches(v, p) ==
    /\ verdict' = [value |-> v, pattern |-> p, result |-> matches(options, v, p),
                   called |-> TRUE]
    /\ UNCHANGED <<db, options, query, strategy, outcome, origin>>

NextMatcher == \E v \in Strings, p \in Strings : Matches(v, p)

SpecMatcher == InitMatcher /\ [][NextMatcher]_vars

(* ------------------------- vocabulary of the claims ------------------- *)

Nodes == 0..db.n
EntryNodes == { n \in 1..db.n : db.kind[n] = "E" }
GroupNodes == { Root } \cup { n \in 1..db.n : db.kind[n] = "G" }

\* The nodes from the root's child down to n (empty for the root).
RECURSIVE RouteNodes(_)
RouteNodes(n) == IF n = Root THEN <<>> ELSE Append(RouteNodes(db.parent[n]), n)

\* The titles along that route, n's own title last.
RouteTitles(n) == LET r == RouteNodes(n) IN [k \in 1..Len(r) |-> db.title[r[k]]]

Depth(n) == Len(RouteNodes(n))

HasSlash(s) == \E i \in 1..Len(s) : s[i] = Slash

\* No earlier sibling of the same kind carries n's title.
FirstOfItsTitle(n) ==
    \A m \in 1..db.n :
        (m < n /\ db.parent[m] = db.parent[n] /\ db.kind[m] = db.kind[n])
            => db.title[m] # db.title[n]

\* No other sibling of the same kind carries n's title.
UniqueAmongSiblings(n) ==
    \A m \in 1..db.n :
        (m # n /\ db.parent[m] = db.parent[n] /\ db.kind[m] = db.kind[n])
            => db.title[m] # db.title[n]

\* Every title from the root's child down to n is non-empty and free of '/'.
PlainRoute(n) ==
    \A k \in 1..Len(RouteNodes(n)) :
        LET t == db.title[RouteNodes(n)[k]] IN t # <<>> /\ ~HasSlash(t)

\* "/g1/.../gn/e", and the same with the root's title as a first segment.
PathFromRoot(n) == <<Slash>> \o JoinSegs(RouteTitles(n))
PathWithRootTitle(n) == <<Slash>> \o JoinSegs(<<db.title[Root]>> \o RouteTitles(n))

\* Every title in the tree, the root's included, is non-empty and free of '/'.
AllTitlesPlain == \A n \in Nodes : db.title[n] # <<>> /\ ~HasSlash(db.title[n])

\* No title in the tree holds a '/'.
NoTitleHasSlash == \A n \in Nodes : ~HasSlash(db.title[n])

Called == outcome # NoCall

\* The call returned exactly one result: node n under the path p.
ReturnsOnly(p, n) == outcome = Ok(<< SearchResult(p, n) >>)

(* -------------------------------- C1 ---------------------------------- *)

\* C1 as stated: an absolute-path query that spells the titles of a chain of
\* groups from the root and of an entry in the last one, with or without the
\* root's title in front, returns exactly that entry under the query as path,
\* in every tree; and no absolute-path query returns more than one result.
\* Stated over the trees whose titles are all non-empty and hold no '/',
\* where it fails already.
C1_AsStated ==
    (Called /\ strategy = "absolute" /\ AllTitlesPlain) =>
        /\ Len(outcome.results) <= 1
        /\ \A e \in EntryNodes :
              query \in {PathFromRoot(e), PathWithRootTitle(e)} => ReturnsOnly(query, e)

\* C1, amended: the same, for a route whose titles are non-empty, hold no '/'
\* and are each the first of that title among the siblings of their kind,
\* where the root's title holds no '/' when it is spelled out, and differs
\* from the first segment when it is left out.
C1_EntryByAbsolutePath ==
    (Called /\ strategy = "absolute") =>
        /\ Len(outcome.results) <= 1
        /\ \A e \in EntryNodes :
              (PlainRoute(e) /\ \A k \in 1..Depth(e) : FirstOfItsTitle(RouteNodes(e)[k])) =>
                /\ (query = PathFromRoot(e) /\ RouteTitles(e)[1] # db.title[Root])
                      => ReturnsOnly(query, e)
                /\ (query = PathWithRootTitle(e) /\ ~HasSlash(db.title[Root]))
                      => ReturnsOnly(query, e)

\* An entry two groups below the root is returned for its spelled-out path.
C1_Witness ==
    /\ strategy = "absolute"
    /\ origin = NoOrigin
    /\ \E e \in EntryNodes :
          /\ Depth(e) = 3
          /\ PlainRoute(e)
          /\ query = PathFromRoot(e)
          /\ ReturnsOnly(query, e)

(* -------------------------------- C2 ---------------------------------- *)

\* The segments the absolute-path strategy walks: those of the query after
\* its leading separators, less a first one that names the root.
WalkedSegments ==
    LET parts == split(trim_start_matches(query))
    IN  IF parts[1] = db.title[Root] THEN Tail(parts) ELSE parts

\* The group reached from g by descending, for each segment in turn, into
\* the first child group that carries it; -1 when some segment names none.
RECURSIVE Reached(_, _)
Reached(g, segs) ==
    IF segs = <<>> THEN g
    ELSE LET next == { c \in GroupNodes \ {Root} :
                          db.parent[c] = g /\ db.title[c] = Head(segs) /\ FirstOfItsTitle(c) }
         IN  IF next = {} THEN -1 ELSE Reached(CHOOSE c \in next : TRUE, Tail(segs))

Front(s) == SubSeq(s, 1, Len(s) - 1)
Last(s) == s[Len(s)]

\* The group the walk has reached when it looks at the last segment.
GroupBeforeLast == Reached(Root, Front(WalkedSegments))

\* C2: at the last segment of an absolute path, a child group of the group
\* reached so far that carries the segment, when no entry of that group
\* does, is returned alone, under the query as path.
C2_GroupAtLastSegment ==
    (Called /\ strategy = "absolute" /\ WalkedSegments # <<>> /\ GroupBeforeLast # -1) =>
        \A c \in GroupNodes \ {Root} :
            ( /\ db.parent[c] = GroupBeforeLast
              /\ db.title[c] = Last(WalkedSegments)
              /\ FirstOfItsTitle(c)
              /\ \A e \in EntryNodes :
                    db.parent[e] = GroupBeforeLast => db.title[e] # Last(WalkedSegments) )
            => ReturnsOnly(query, c)

(* -------------------------------- C3 ---------------------------------- *)

ResultNodes == { outcome.results[k].node : k \in 1..Len(outcome.results) }

\* C3: a subpath query "G/t" returns exactly the entries whose title matches
\* t and whose parent group's title matches G, both under the Matcher and
\* the finder's options.  Stated for non-empty G and t over trees whose
\* titles are non-empty and hold no '/', where it fails already.
C3_SubpathByMatcher ==
    ( /\ Called /\ strategy = "subpath" /\ Len(split(query)) = 2
      /\ split(query)[1] # <<>> /\ split(query)[2] # <<>>
      /\ AllTitlesPlain ) =>
        /\ outcome.ok
        /\ ResultNodes =
              { e \in EntryNodes :
                  /\ matches(options, db.title[e], split(query)[2])
                  /\ matches(options, db.title[db.parent[e]], split(query)[1]) }

(* -------------------------------- C4 ---------------------------------- *)

NonEmptyOf(segs) == SelectSeq(segs, LAMBDA x : x # <<>>)

\* The path spells a route from the root to n: its non-empty segments are
\* the titles from the root's child down to n, the root's title first or
\* not, a title that is empty leaving no segment.
DenotesRoute(p, n) ==
    NonEmptyOf(split(p)) \in { NonEmptyOf(RouteTitles(n)),
                               NonEmptyOf(<<db.title[Root]>> \o RouteTitles(n)) }

\* No title from the root down to n holds a '/'.
SlashFreeRoute(n) ==
    /\ ~HasSlash(db.title[Root])
    /\ \A k \in 1..Depth(n) : ~HasSlash(RouteTitles(n)[k])

\* Every group between the root and n has a non-empty title without '/'.
PlainGroupsAbove(n) == n # Root /\ PlainRoute(db.parent[n])

\* A bare-name query returns one result for each entry whose title matches
\* and nothing else.
CompleteMatchSet ==
    /\ outcome.ok
    /\ \A e \in EntryNodes :
          matches(options, db.title[e], query) =>
              Cardinality({ k \in 1..Len(outcome.results) : outcome.results[k].node = e }) = 1
    /\ \A k \in 1..Len(outcome.results) :
          /\ outcome.results[k].node \in EntryNodes
          /\ matches(options, db.title[outcome.results[k].node], query)

\* C4 as stated: the complete match set, where entries of one title at
\* different depths get pairwise distinct paths and every path is the path
\* of its own node, in every tree.  Stated over the trees whose titles hold
\* no '/' and for a non-empty query, where it fails already.
C4_AsStated ==
    (Called /\ strategy = "name" /\ NoTitleHasSlash /\ query # <<>>) =>
        /\ CompleteMatchSet
        /\ \A i, j \in 1..Len(outcome.results) :
              LET a == outcome.results[i]
                  b == outcome.results[j]
              IN  (db.title[a.node] = db.title[b.node] /\ Depth(a.node) # Depth(b.node))
                      => a.path # b.path
        /\ \A k \in 1..Len(outcome.results) :
              DenotesRoute(outcome.results[k].path, outcome.results[k].node)

\* C4, amended: the complete match set in every tree; distinct paths for
\* entries of one title at different depths when the groups above both have
\* non-empty titles without '/'; and every path the path of its own node
\* when no title on its route holds a '/'.
C4_BareNameMatchSet ==
    (Called /\ strategy = "name") =>
        /\ CompleteMatchSet
        /\ \A i, j \in 1..Len(outcome.results) :
              LET a == outcome.results[i]
                  b == outcome.results[j]
              IN  ( /\ db.title[a.node] = db.title[b.node]
                    /\ Depth(a.node) # Depth(b.node)
                    /\ PlainGroupsAbove(a.node) /\ PlainGroupsAbove(b.node) )
                      => a.path # b.path
        /\ \A k \in 1..Len(outcome.results) :
              SlashFreeRoute(outcome.results[k].node)
                  => DenotesRoute(outcome.results[k].path, outcome.results[k].node)

\* Two entries of one title, one in the root and one in a titled group, are
\* both returned, under different paths.
C4_Witness ==
    /\ strategy = "name"
    /\ options.exact_match /\ options.case_sensitive
    /\ query # <<>>
    /\ Cardinality(EntryNodes) = 2
    /\ Len(outcome.results) = 2
    /\ LET a == outcome.results[1]
           b == outcome.results[2]
       IN  /\ db.title[a.node] = db.title[b.node]
           /\ Depth(a.node) = 1 /\ Depth(b.node) = 2
           /\ PlainGroupsAbove(b.node)
           /\ a.path # b.path

(* -------------------------------- C5 ---------------------------------- *)

\* C5: the path of a result of a bare-name or subpath query, fed back into
\* find, is resolved by the absolute-path strategy to that result's node
\* alone, when the titles on the node's route are non-empty, hold no '/' and
\* are unique among siblings (the root's title may be empty).
C5_RoundTrip ==
    ( /\ origin.node # -1
      /\ origin.strategy \in {"name", "subpath"}
      /\ PlainRoute(origin.node)
      /\ ~HasSlash(db.title[Root])
      /\ \A k \in 1..Depth(origin.node) : UniqueAmongSiblings(RouteNodes(origin.node)[k]) )
    => (strategy = "absolute" /\ ReturnsOnly(origin.path, origin.node))

\* The path of a subpath result two groups below a titled root resolves back
\* to its node.
C5_Witness ==
    /\ origin.strategy = "subpath"
    /\ Depth(origin.node) = 3
    /\ db.title[Root] # <<>> /\ ~HasSlash(db.title[Root])
    /\ PlainRoute(origin.node)
    /\ \A k \in 1..Depth(origin.node) : UniqueAmongSiblings(RouteNodes(origin.node)[k])
    /\ strategy = "absolute"
    /\ ReturnsOnly(origin.path, origin.node)

(* -------------------------------- C6 ---------------------------------- *)

\* C6: under every strategy the path of a result spells a route from the
\* root to its node, and an absolute-path query returns only a node whose
\* title is the query's last segment.
C6_PathDenotesRoute ==
    Called =>
        \A k \in 1..Len(outcome.results) :
            LET r == outcome.results[k]
            IN  /\ DenotesRoute(r.path, r.node)
                /\ strategy = "absolute" => db.title[r.node] = Last(split(query))

(* -------------------------------- C7 ---------------------------------- *)

\* The walk reaches a segment before the last one that no child group of
\* the group reached so far carries.
MissingIntermediate ==
    \E k \in 1..(Len(WalkedSegments) - 1) :
        LET g == Reached(Root, SubSeq(WalkedSegments, 1, k - 1))
        IN  /\ g # -1
            /\ \A c \in GroupNodes \ {Root} :
                  db.parent[c] = g => db.title[c] # WalkedSegments[k]

\* C7: an absolute-path query with such a segment fails with "Group not
\* found" and returns no result.
C7_MissingIntermediateFails ==
    (Called /\ strategy = "absolute" /\ MissingIntermediate) => outcome = Err(GroupNotFound)

\* The second of three segments is missing under an existing first group,
\* while an entry with the last segment's title exists elsewhere in the tree.
C7_Witness ==
    /\ strategy = "absolute"
    /\ Len(WalkedSegments) = 3
    /\ \A k \in 1..3 : WalkedSegments[k] # <<>>
    /\ AllTitlesPlain
    /\ Reached(Root, SubSeq(WalkedSegments, 1, 1)) \notin {-1, Root}
    /\ MissingIntermediate
    /\ \E e \in EntryNodes : db.title[e] = Last(WalkedSegments)
    /\ outcome = Err(GroupNotFound)

(* -------------------------------- C8 ---------------------------------- *)

\* C8: the query "/" fails with "Empty path", whatever the tree.
C8_SlashIsEmptyQuery ==
    (Called /\ query = <<Slash>>) => outcome = Err(EmptyPath)

(* -------------------------------- C9 ---------------------------------- *)

\* C9: a path built by the bare-name or the subpath strategy never holds two
\* separators in a row, an empty group title leaving no component, also for
\* an entry directly in a root without title.  Stated for a non-empty query
\* and the entries with a non-empty title whose route holds no '/'.
C9_NoDoubledSeparator ==
    (Called /\ strategy \in {"name", "subpath"} /\ query # <<>>) =>
        \A k \in 1..Len(outcome.results) :
            LET r == outcome.results[k]
            IN  (SlashFreeRoute(r.node) /\ db.title[r.node] # <<>>)
                    => ~contains(r.path, <<Slash, Slash>>)

(* -------------------------------- C10 --------------------------------- *)

Folded(s) == [i \in 1..Len(s) |-> IF s[i] = "A" THEN "a" ELSE s[i]]

IsSubstring(p, v) ==
    \E i \in 0..(Len(v) - Len(p)) : SubSeq(v, i + 1, i + Len(p)) = p

\* C10: matches(value, pattern) is equality in exact mode and "pattern is a
\* substring of value" otherwise, on the strings as given when case matters
\* and on their lowercase forms when it does not; so the empty pattern
\* matches every value in substring mode and only the empty value in exact
\* mode.
C10_MatcherVerdict ==
    verdict.called =>
        LET v == IF options.case_sensitive THEN verdict.value ELSE Folded(verdict.value)
            p == IF options.case_sensitive THEN verdict.pattern ELSE Folded(verdict.pattern)
        IN  /\ verdict.result = (IF options.exact_match THEN v = p ELSE IsSubstring(p, v))
            /\ (verdict.pattern = <<>> /\ ~options.exact_match) => verdict.result
            /\ (verdict.pattern = <<>> /\ options.exact_match)
                  => (verdict.result = (verdict.value = <<>>))

\* A pattern that differs from a part of the value only by case matches when
\* case does not matter and the match need not be exact.
C10_Witness ==
    /\ verdict.called
    /\ ~options.case_sensitive /\ ~options.exact_match
    /\ verdict.value = <<"a", "A">>
    /\ verdict.pattern = <<"A", "a">>
    /\ verdict.result

(* -------------------------------- C11 --------------------------------- *)

\* The entries of group g that carry title t, and its child groups that do.
EntriesTitled(g, t) == { e \in EntryNodes : db.parent[e] = g /\ db.title[e] = t }
GroupsTitled(g, t) == { c \in GroupNodes \ {Root} : db.parent[c] = g /\ db.title[c] = t }

\* The last segment is carried by an entry and by a child group of the group
\* the walk has reached.
EntryAndGroupAtLast ==
    /\ WalkedSegments # <<>>
    /\ GroupBeforeLast # -1
    /\ EntriesTitled(GroupBeforeLast, Last(WalkedSegments)) # {}
    /\ GroupsTitled(GroupBeforeLast, Last(WalkedSegments)) # {}

\* C11: when an entry and a child group of the group reached so far both
\* carry the last segment of an absolute path, find returns the first such
\* entry in stored order and not the group; and whatever the options are, an
\* entry that an absolute path returns carries the last segment letter for
\* letter, is an entry of the group reached so far, and is the first of its
\* title there.
C11_EntryBeforeGroup ==
    (Called /\ strategy = "absolute") =>
        /\ EntryAndGroupAtLast =>
              \E e \in EntriesTitled(GroupBeforeLast, Last(WalkedSegments)) :
                  FirstOfItsTitle(e) /\ ReturnsOnly(query, e)
        /\ \A k \in 1..Len(outcome.results) :
              LET n == outcome.results[k].node
              IN  n \in EntryNodes =>
                      /\ db.title[n] = Last(WalkedSegments)
                      /\ db.parent[n] = GroupBeforeLast
                      /\ FirstOfItsTitle(n)

\* With case set not to matter and substring matching on, the root holds an
\* entry "A", then an entry "a", and a child group "a"; the query "/a"
\* returns the second entry.
C11_Witness ==
    /\ strategy = "absolute"
    /\ ~options.case_sensitive /\ ~options.exact_match
    /\ EntryAndGroupAtLast
    /\ \E e \in EntriesTitled(GroupBeforeLast, Last(WalkedSegments)) :
          /\ ReturnsOnly(query, e)
          /\ \E f \in EntryNodes :
                /\ f < e /\ db.parent[f] = db.parent[e]
                /\ db.title[f] # db.title[e]
                /\ matches(options, db.title[f], Last(WalkedSegments))

(* -------------------------------- C12 --------------------------------- *)

\* C12: the results of a call of find hold every node at most once, so that
\* a query one entry satisfies yields a list of length one.  Stated for the
\* queries without an empty segment over the trees whose titles are all
\* non-empty and hold no '/', where it fails already.
C12_NoNodeTwice ==
    ( /\ Called /\ AllTitlesPlain
      /\ \A k \in 1..Len(split(query)) : split(query)[k] # <<>> ) =>
        \A i, j \in 1..Len(outcome.results) :
            i # j => outcome.results[i].node # outcome.results[j].node

====
